---- MODULE Spec2Model ----
(***************************************************************************)
(* A model of the two-line element set parser of src/src/lib.rs.           *)
(*                                                                         *)
(* Bytes and chars are modelled by their code points (naturals); a slice   *)
(* is a sequence.  Slices are 1-based here and 0-based in the source, so   *)
(* column p of a line is line[p + 1].  A u32 is modelled by two 16-bit     *)
(* limbs so that arithmetic overflow at 2^32 is computed exactly.          *)
(* A decoded f32/f64 is represented by the text (or the integer parts)     *)
(* that the source hands to the floating point conversion.                 *)
(***************************************************************************)
EXTENDS Integers, Sequences, FiniteSets, TLC

(***************************************************************************)
(* Bounds of the explored input space.                                     *)
(***************************************************************************)
\* how many edits are applied to a pair of test lines before parsing
MaxEdits == 2
\* longest slice handed to as_digits in SpecDigits
MaxDigitsLen == 10

(***************************************************************************)
(* Program constants.                                                      *)
(***************************************************************************)
DECIMAL_RADIX == 10
LINE_LEN == 69
\* one limb of a u32: 2^16
Limb == 65536
\* the largest ASCII byte (u8::is_ascii)
ASCII_MAX == 127
CH_SPACE == 32
CH_PLUS == 43
CH_MINUS == 45
CH_DOT == 46
CH_0 == 48
CH_1 == 49
CH_2 == 50
CH_U == 85
CH_C == 67
CH_S == 83

VARIABLES
    line1,      \* first argument of Tle::parse
    line2,      \* second argument of Tle::parse
    nedits,     \* number of edits applied to the test lines
    last,       \* index of the last edit applied
    pc,         \* "input" before the call, "done" after it returned or panicked
    result,     \* what Tle::parse produced
    chars,      \* argument of as_digits (SpecDigits)
    dres        \* what as_digits produced (SpecDigits)

vars == <<line1, line2, nedits, last, pc, result, chars, dres>>

(***************************************************************************)
(* Slices.                                                                 *)
(***************************************************************************)
\* slice.split_at(n): <<first n elements, the rest>>; the callers guarantee n <= len
split_at(s, n) == <<SubSeq(s, 1, n), SubSeq(s, n + 1, Len(s))>>

(***************************************************************************)
(* u32 arithmetic.  A value is [hi, lo] with value hi * 2^16 + lo; every   *)
(* operation also reports whether the exact result left the u32 range.     *)
(***************************************************************************)
U32(h, l) == [hi |-> h, lo |-> l]

U32Zero == U32(0, 0)

\* x * k for a small k (a digit or the radix), wrapped to 32 bits
MulSmall(x, k) ==
    LET l == x.lo * k
        h == x.hi * k + (l \div Limb)
    IN  [val |-> U32(h % Limb, l % Limb), ovf |-> h >= Limb]

\* x + y, wrapped to 32 bits
AddU32(x, y) ==
    LET l == x.lo + y.lo
        h == x.hi + y.hi + (l \div Limb)
    IN  [val |-> U32(h % Limb, l % Limb), ovf |-> h >= Limb]

\* 10u32.pow(e)
RECURSIVE Pow10(_)
Pow10(e) ==
    IF e = 0
    THEN [val |-> U32(0, 1), ovf |-> FALSE]
    ELSE LET p == Pow10(e - 1)
             m == MulSmall(p.val, DECIMAL_RADIX)
         IN  [val |-> m.val, ovf |-> p.ovf \/ m.ovf]

\* a u32 below 2^31 as an integer (every value the parser decodes has at
\* most 8 digits)
U32ToInt(x) == x.hi * Limb + x.lo

\* u32::checked_ilog10 of a value below 2^31: <<TRUE, floor(log10 n)>>, or
\* <<FALSE, 0>> for zero
RECURSIVE ILog10(_)
ILog10(n) == IF n < DECIMAL_RADIX THEN 0 ELSE 1 + ILog10(n \div DECIMAL_RADIX)

checked_ilog10(n) == IF n = 0 THEN <<FALSE, 0>> ELSE <<TRUE, ILog10(n)>>

(***************************************************************************)
(* as_digits, lib.rs 437-455.  The loop reads the slice from its last      *)
(* char to its first.  `checks` is the build's overflow-checks setting: an *)
(* overflowing pow, multiplication or addition panics when it is on and    *)
(* wraps when it is off.                                                   *)
(***************************************************************************)
\* char::to_digit(DECIMAL_RADIX) is Some
IsDigit(c) == c >= CH_0 /\ c < CH_0 + DECIMAL_RADIX

to_digit(c) == c - CH_0

DSome(v) == [kind |-> "Some", val |-> v]
DNone == [kind |-> "None", val |-> U32Zero]
DPanic == [kind |-> "Panic", val |-> U32Zero]

RECURSIVE as_digits_loop(_, _, _, _)
as_digits_loop(cs, i, val, checks) ==
    IF i >= Len(cs)
    THEN DSome(val)
    ELSE LET c == cs[Len(cs) - i]
         IN  IF ~IsDigit(c)
             THEN DNone
             ELSE LET p == Pow10(i)
                      t == MulSmall(p.val, to_digit(c))
                      s == AddU32(val, t.val)
                  IN  IF (p.ovf \/ t.ovf \/ s.ovf) /\ checks
                      THEN DPanic
                      ELSE as_digits_loop(cs, i + 1, s.val, checks)

\* a variant that weighs the first char least: the slice is read backwards
as_digits_wrong_order(cs, checks) ==
    IF Len(cs) = 0
    THEN DNone
    ELSE as_digits_loop([k \in 1..Len(cs) |-> cs[Len(cs) + 1 - k]], 0, U32Zero, checks)

as_digits(cs, checks) ==
    IF Len(cs) = 0 THEN DNone ELSE as_digits_loop(cs, 0, U32Zero, checks)

(***************************************************************************)
(* trim_leading_space, lib.rs 363-374.  The loop condition is              *)
(* blank <= line.len(), so when every char is a space (or the slice is     *)
(* empty) it indexes line[line.len()], which panics.                       *)
(***************************************************************************)
RECURSIVE trim_loop(_, _)
trim_loop(line, blank) ==
    IF blank <= Len(line)
    THEN IF blank = Len(line)
         THEN [kind |-> "Panic", val |-> <<>>]     \* line[blank] is out of bounds
         ELSE IF line[blank + 1] = CH_SPACE
              THEN trim_loop(line, blank + 1)
              ELSE [kind |-> "Ok", val |-> split_at(line, blank)[2]]
    ELSE [kind |-> "Ok", val |-> split_at(line, blank)[2]]

trim_leading_space(line) == trim_loop(line, 0)

(***************************************************************************)
(* Results and errors.  An Error is <<kind, line, a, b>>: the variant's    *)
(* name, its Line ("" when it carries none) and its other payloads (0      *)
(* when absent), in the order of the enum's declaration, lib.rs 17-91.     *)
(***************************************************************************)
Error(kind, line, a, b) == <<kind, line, a, b>>

Ok(v) == [kind |-> "Ok", err |-> Error("", "", 0, 0), val |-> v]
Err(e) == [kind |-> "Err", err |-> e, val |-> <<>>]
\* the thread panicked: there is no return value
Panic == [kind |-> "Panic", err |-> Error("", "", 0, 0), val |-> <<>>]

(***************************************************************************)
(* str::parse::<f32>() and str::parse::<f64>() as called on a field's      *)
(* text, lib.rs 200, 208, 284, 291, 310, 317, 324.  The conversion accepts *)
(*   [+-]? ( digits [. digits?]? | . digits ) ( [eE] [+-]? digits )?       *)
(* and, after the sign, "inf", "infinity" and "nan" in any letter case;    *)
(* it accepts no white space.  Only acceptance is modelled.                *)
(***************************************************************************)
\* the first index >= i of s that holds no digit (Len(s) + 1 when none)
RECURSIVE DigitRun(_, _)
DigitRun(s, i) ==
    IF i <= Len(s) /\ IsDigit(s[i]) THEN DigitRun(s, i + 1) ELSE i

\* ASCII lower case of a char
Lower(c) == IF c >= 65 /\ c <= 90 THEN c + 32 ELSE c

IsInfNan(s) ==
    LET low == [k \in 1..Len(s) |-> Lower(s[k])]
    IN  \/ low = <<110, 97, 110>>                                \* nan
        \/ low = <<105, 110, 102>>                               \* inf
        \/ low = <<105, 110, 102, 105, 110, 105, 116, 121>>      \* infinity

IsNumber(s, start) ==
    LET n == Len(s)
        a == DigitRun(s, start)
        dot == a <= n /\ s[a] = CH_DOT
        b == IF dot THEN DigitRun(s, a + 1) ELSE a
        ndigits == (a - start) + (IF dot THEN b - (a + 1) ELSE 0)
        c == IF b + 1 <= n /\ s[b + 1] \in {CH_PLUS, CH_MINUS} THEN b + 2 ELSE b + 1
        d == DigitRun(s, c)
    IN  /\ ndigits > 0
        /\ \/ b = n + 1
           \/ /\ b <= n
              /\ Lower(s[b]) = 101                               \* e
              /\ d > c
              /\ d = n + 1

parse_float(s) ==
    LET start == IF Len(s) > 0 /\ s[1] \in {CH_PLUS, CH_MINUS} THEN 2 ELSE 1
    IN  /\ Len(s) > 0
        /\ start <= Len(s)
        /\ \/ IsNumber(s, start)
           \/ IsInfNan(SubSeq(s, start, Len(s)))

(***************************************************************************)
(* parse_tle_f32, lib.rs 376-410.  Every failure is                        *)
(* Error::SecondDerivative, whichever field the caller decodes.  The value *)
(* is (num as f32).powi(-(exp as i32)), kept as <<num, exp>>.              *)
(***************************************************************************)
\* the loop of lines 381-390: the index (0-based) of the only '-', -1 when
\* there is none, -2 when a second one is met
RECURSIVE scan_minus(_, _, _)
scan_minus(trimmed, i, idx) ==
    IF i < Len(trimmed)
    THEN IF trimmed[i + 1] = CH_MINUS
         THEN IF idx = -1
              THEN scan_minus(trimmed, i + 1, i)
              ELSE -2
         ELSE scan_minus(trimmed, i + 1, idx)
    ELSE idx

parse_tle_f32(line, checks) ==
    LET t == trim_leading_space(line)
        trimmed == t.val
        idx == scan_minus(trimmed, 0, -1)
        parts == split_at(trimmed, idx)
        num == as_digits(parts[1], checks)
        \* exp.split_first(): exp starts with the '-' found, so it is not empty
        exp == as_digits(Tail(parts[2]), checks)
        e == Err(Error("SecondDerivative", "", 0, 0))
    IN  IF t.kind = "Panic" THEN Panic
        ELSE IF idx < 0 THEN e
        ELSE IF num.kind = "Panic" THEN Panic
        ELSE IF num.kind = "None" THEN e
        ELSE IF Len(parts[2]) = 0 THEN e
        ELSE IF exp.kind = "Panic" THEN Panic
        ELSE IF exp.kind = "None" THEN e
        ELSE Ok(<<U32ToInt(num.val), U32ToInt(exp.val)>>)

(***************************************************************************)
(* validate_line and tle_line, lib.rs 412-435.                             *)
(***************************************************************************)
\* a variant that looks at the first byte only
is_ascii_first_byte(line) == Len(line) = 0 \/ line[1] <= ASCII_MAX

\* [u8]::is_ascii
is_ascii(line) == \A k \in 1..Len(line) : line[k] <= ASCII_MAX

\* the first LINE_LEN bytes, each as a char
tle_line(line) == [k \in 1..LINE_LEN |-> line[k]]

\* a variant that rejects only the lines that are too long; tle_line then
\* indexes past the end of a shorter one
validate_line_too_long_only(line, line_num) ==
    IF Len(line) > LINE_LEN
    THEN Err(Error("InvalidLineSize", line_num, Len(line), 0))
    ELSE IF ~is_ascii(line)
         THEN Err(Error("ContainsNonAsciiCharacter", line_num, 0, 0))
         ELSE IF Len(line) < LINE_LEN THEN Panic ELSE Ok(tle_line(line))

validate_line(line, line_num) ==
    IF Len(line) # LINE_LEN
    THEN Err(Error("InvalidLineSize", line_num, Len(line), 0))
    ELSE IF ~is_ascii(line)
         THEN Err(Error("ContainsNonAsciiCharacter", line_num, 0, 0))
         ELSE Ok(tle_line(line))

(***************************************************************************)
(* split_space!, lib.rs 132-141: the next char must be a space; `pos` is   *)
(* the literal the call site passes, not a computed column.                *)
(***************************************************************************)
\* a variant that skips the column without looking at it
split_space_unchecked(line_num, line, pos) == Ok(split_at(line, 1)[2])

split_space(line_num, line, pos) ==
    LET s == split_at(line, 1)
    IN  IF s[1][1] # CH_SPACE
        THEN Err(Error("Space", line_num, s[1][1], pos))
        ELSE Ok(s[2])

(***************************************************************************)
(* Tle::parse, lib.rs 146-360.  The first failing step returns; a panic in *)
(* a callee unwinds through the call.  Line 2 is not looked at before      *)
(* every step of line 1 succeeded.                                         *)
(***************************************************************************)
\* as_digits as the parser uses it: Some(v) as Ok(integer), None as an error
\* result the caller replaces by its own error
digits(slice, checks) ==
    LET d == as_digits(slice, checks)
    IN  IF d.kind = "Panic" THEN Panic
        ELSE IF d.kind = "None" THEN Err(Error("None", "", 0, 0))
        ELSE Ok(U32ToInt(d.val))

\* a variant with the arms of 'C' and 'S' exchanged
classification_of_swapped(c) ==
    IF c = CH_U THEN Ok("Unclassified")
    ELSE IF c = CH_C THEN Ok("Secret")
    ELSE IF c = CH_S THEN Ok("Classified")
    ELSE Err(Error("Classification", "", c, 0))

\* lines 165-170
classification_of(c) ==
    IF c = CH_U THEN Ok("Unclassified")
    ELSE IF c = CH_C THEN Ok("Classified")
    ELSE IF c = CH_S THEN Ok("Secret")
    ELSE Err(Error("Classification", "", c, 0))

\* lines 147-253: the steps of line 1, in order
parse_line1(bytes, checks) ==
    LET v == validate_line(bytes, "Line1")
        \* 152: line-number marker
        s0 == split_at(v.val, 1)
        sp1 == split_space("Line1", s0[2], 1)
        \* 159: satellite catalog number
        s2 == split_at(sp1.val, 5)
        satellite_catalog_number_1 == digits(s2[1], checks)
        \* 164: classification
        s7 == split_at(s2[2], 1)
        classification == classification_of(s7[1][1])
        sp8 == split_space("Line1", s7[2], 8)
        \* 174: international designator
        s9 == split_at(sp8.val, 2)
        launch_year == digits(s9[1], checks)
        s11 == split_at(s9[2], 3)
        launch_num == digits(s11[1], checks)
        s14 == split_at(s11[2], 3)
        launch_piece == <<s14[1][1], s14[1][2], s14[1][3]>>
        sp17 == split_space("Line1", s14[2], 17)
        \* 194: epoch
        s18 == split_at(sp17.val, 2)
        epoch_year == digits(s18[1], checks)
        s20 == split_at(s18[2], 12)
        sp32 == split_space("Line1", s20[2], 32)
        \* 206: first derivative of mean motion
        s33 == split_at(sp32.val, 10)
        t33 == trim_leading_space(s33[1])
        sp43 == split_space("Line1", s33[2], 43)
        \* 214: second derivative of mean motion
        s44 == split_at(sp43.val, 8)
        second_derivative == parse_tle_f32(s44[1], checks)
        sp52 == split_space("Line1", s44[2], 52)
        \* 222: B*, with its own sign in front
        s53 == split_at(sp52.val, 8)
        negative == s53[1][1] = CH_MINUS
        b_star == parse_tle_f32(IF negative THEN Tail(s53[1]) ELSE s53[1], checks)
        sp61 == split_space("Line1", s53[2], 61)
        \* 236: ephemeris type
        s62 == split_at(sp61.val, 1)
        sp63 == split_space("Line1", s62[2], 63)
        \* 243: element set number
        s64 == split_at(sp63.val, 4)
        t64 == trim_leading_space(s64[1])
        element_set_number == digits(t64.val, checks)
        \* 250: checksum, the rest of the line
        checksum_1 == digits(s64[2], checks)
    IN  IF v.kind # "Ok" THEN v
        ELSE IF s0[1][1] # CH_1 THEN Err(Error("LineNumber", "Line1", s0[2][1], 0))
        ELSE IF sp1.kind # "Ok" THEN sp1
        ELSE IF satellite_catalog_number_1.kind = "Panic" THEN Panic
        ELSE IF satellite_catalog_number_1.kind = "Err"
             THEN Err(Error("SatlliteCatalogNumber", "Line1", 0, 0))
        ELSE IF classification.kind # "Ok" THEN classification
        ELSE IF sp8.kind # "Ok" THEN sp8
        ELSE IF launch_year.kind = "Panic" THEN Panic
        ELSE IF launch_year.kind = "Err"
             THEN Err(Error("InternationalDesignatorLaunchYear", "", 0, 0))
        ELSE IF launch_num.kind = "Panic" THEN Panic
        ELSE IF launch_num.kind = "Err"
             THEN Err(Error("InternationalDesignatorLaunchNumber", "", 0, 0))
        ELSE IF sp17.kind # "Ok" THEN sp17
        ELSE IF epoch_year.kind = "Panic" THEN Panic
        ELSE IF epoch_year.kind = "Err" THEN Err(Error("EpochYear", "", 0, 0))
        ELSE IF ~parse_float(s20[1]) THEN Err(Error("EpochDay", "", 0, 0))
        ELSE IF sp32.kind # "Ok" THEN sp32
        ELSE IF t33.kind = "Panic" THEN Panic
        ELSE IF ~parse_float(t33.val) THEN Err(Error("FirstDerivative", "", 0, 0))
        ELSE IF sp43.kind # "Ok" THEN sp43
        ELSE IF second_derivative.kind # "Ok" THEN second_derivative
        ELSE IF sp52.kind # "Ok" THEN sp52
        ELSE IF b_star.kind # "Ok" THEN b_star
        ELSE IF sp61.kind # "Ok" THEN sp61
        ELSE IF s62[1][1] # CH_0 THEN Err(Error("EphemerisType", "", s62[1][1], 0))
        ELSE IF sp63.kind # "Ok" THEN sp63
        ELSE IF t64.kind = "Panic" THEN Panic
        ELSE IF element_set_number.kind = "Panic" THEN Panic
        ELSE IF element_set_number.kind = "Err"
             THEN Err(Error("ElementSetNumber", "", 0, 0))
        ELSE IF checksum_1.kind = "Panic" THEN Panic
        ELSE IF checksum_1.kind = "Err"
             THEN Err(Error("Checksum", "Line1", s64[2][1], 0))
        ELSE Ok([satellite_catalog_number_1 |-> satellite_catalog_number_1.val,
                 classification |-> classification.val,
                 international_designator |->
                     [launch_year |-> launch_year.val % 256,
                      launch_num |-> launch_num.val % 65536,
                      launch_piece |-> launch_piece],
                 epoch_year |-> epoch_year.val % 256,
                 epoch_day_and_fractional_part |-> s20[1],
                 first_derivative_of_mean_motion |-> t33.val,
                 second_derivative_of_mean_motion |-> second_derivative.val,
                 b_star |-> <<IF negative THEN -1 ELSE 1>> \o b_star.val,
                 element_set_number |-> element_set_number.val % 65536,
                 checksum_1 |-> checksum_1.val % 256])

\* a variant that compares line 1's number with itself
catalog_numbers_differ_self(n1, n2) == n1 # n1

\* line 272
catalog_numbers_differ(n1, n2) == n1 # n2

\* lines 255-359: the steps of line 2, in order; `l1` holds line 1's fields
parse_line2(bytes, l1, checks) ==
    LET v == validate_line(bytes, "Line2")
        \* 260: line-number marker
        first == Head(v.val)
        \* 265: the macro is called with Line::Line1
        sp1 == split_space("Line1", Tail(v.val), 1)
        \* 267: satellite catalog number
        s2 == split_at(sp1.val, 5)
        satellite_catalog_number_2 == digits(s2[1], checks)
        sp7 == split_space("Line2", s2[2], 7)
        \* 282: inclination
        s8 == split_at(sp7.val, 8)
        t8 == trim_leading_space(s8[1])
        sp16 == split_space("Line2", s8[2], 16)
        \* 290: right ascension of the ascending node
        s17 == split_at(sp16.val, 8)
        sp25 == split_space("Line2", s17[2], 25)
        \* 297: eccentricity
        s26 == split_at(sp25.val, 7)
        eccentricity == digits(s26[1], checks)
        dig == checked_ilog10(eccentricity.val)
        leading_zeroes == dig[2] - Len(s26[1])
        sp33 == split_space("Line2", s26[2], 33)
        \* 309: argument of perigee
        s34 == split_at(sp33.val, 8)
        sp42 == split_space("Line2", s34[2], 42)
        \* 316: mean anomaly
        s43 == split_at(sp42.val, 8)
        sp51 == split_space("Line2", s43[2], 51)
        \* 323: mean motion
        s52 == split_at(sp51.val, 11)
        \* 328: revolution number at epoch
        s63 == split_at(s52[2], 5)
        revolution_number_at_epoch == digits(s63[1], checks)
        \* 333: checksum, the rest of the line
        checksum_2 == digits(s63[2], checks)
    IN  IF v.kind # "Ok" THEN v
        ELSE IF first # CH_2 THEN Err(Error("LineNumber", "Line2", first, 0))
        ELSE IF sp1.kind # "Ok" THEN sp1
        ELSE IF satellite_catalog_number_2.kind = "Panic" THEN Panic
        ELSE IF satellite_catalog_number_2.kind = "Err"
             THEN Err(Error("SatlliteCatalogNumber", "Line2", 0, 0))
        ELSE IF catalog_numbers_differ(l1.satellite_catalog_number_1,
                                       satellite_catalog_number_2.val)
             THEN Err(Error("SatelliteCatalogNumberMismatch", "",
                            l1.satellite_catalog_number_1,
                            satellite_catalog_number_2.val))
        ELSE IF sp7.kind # "Ok" THEN sp7
        ELSE IF t8.kind = "Panic" THEN Panic
        ELSE IF ~parse_float(t8.val) THEN Err(Error("Inclination", "", 0, 0))
        ELSE IF sp16.kind # "Ok" THEN sp16
        ELSE IF ~parse_float(s17[1]) THEN Err(Error("RightAscension", "", 0, 0))
        ELSE IF sp25.kind # "Ok" THEN sp25
        ELSE IF eccentricity.kind = "Panic" THEN Panic
        ELSE IF eccentricity.kind = "Err" THEN Err(Error("Eccentricty", "", 0, 0))
        ELSE IF ~dig[1] THEN Err(Error("Eccentricty", "", 0, 0))
        ELSE IF sp33.kind # "Ok" THEN sp33
        ELSE IF ~parse_float(s34[1]) THEN Err(Error("ArgumentOfPerigee", "", 0, 0))
        ELSE IF sp42.kind # "Ok" THEN sp42
        ELSE IF ~parse_float(s43[1]) THEN Err(Error("MeanAnomaly", "", 0, 0))
        ELSE IF sp51.kind # "Ok" THEN sp51
        \* 325: a mean motion that does not parse is reported as MeanAnomaly
        ELSE IF ~parse_float(s52[1]) THEN Err(Error("MeanAnomaly", "", 0, 0))
        ELSE IF revolution_number_at_epoch.kind = "Panic" THEN Panic
        \* 330: a revolution number that does not parse is reported as MeanMotion
        ELSE IF revolution_number_at_epoch.kind = "Err"
             THEN Err(Error("MeanMotion", "", 0, 0))
        ELSE IF checksum_2.kind = "Panic" THEN Panic
        ELSE IF checksum_2.kind = "Err"
             THEN Err(Error("Checksum", "Line2", s63[2][1], 0))
        ELSE Ok([satellite_catalog_number |-> l1.satellite_catalog_number_1,
                 classification |-> l1.classification,
                 international_designator |-> l1.international_designator,
                 epoch_year |-> l1.epoch_year,
                 epoch_day_and_fractional_part |-> l1.epoch_day_and_fractional_part,
                 first_derivative_of_mean_motion |-> l1.first_derivative_of_mean_motion,
                 second_derivative_of_mean_motion |-> l1.second_derivative_of_mean_motion,
                 b_star |-> l1.b_star,
                 element_set_number |-> l1.element_set_number,
                 checksum_1 |-> l1.checksum_1,
                 inclination |-> t8.val,
                 right_ascension_of_ascending_node |-> s17[1],
                 eccentricity |-> <<eccentricity.val, leading_zeroes>>,
                 argument_of_perigee |-> s34[1],
                 mean_anomaly |-> s43[1],
                 mean_motion |-> s52[1],
                 revolution_number_at_epoch |-> revolution_number_at_epoch.val,
                 checksum_2 |-> checksum_2.val % 256])

parse(l1, l2, checks) ==
    LET first == parse_line1(l1, checks)
    IN  IF first.kind # "Ok" THEN first ELSE parse_line2(l2, first.val, checks)

(***************************************************************************)
(* The inputs.  Tle::parse takes any two byte slices.  The inputs explored *)
(* are the two pairs of lines of tests::tle_test, lib.rs 461-471, in every *)
(* combination, with up to MaxEdits edits applied, in the order of         *)
(* EditList.                                                               *)
(***************************************************************************)
\* "1 25544U 98067A   08264.51782528 -.00002182  00000-0 -11606-4 0  2927"
ISS_LINE1 ==
    <<49, 32, 50, 53, 53, 52, 52, 85, 32, 57, 56, 48, 54, 55, 65, 32, 32, 32, 48, 56, 50, 54, 52,
      46, 53, 49, 55, 56, 50, 53, 50, 56, 32, 45, 46, 48, 48, 48, 48, 50, 49, 56, 50, 32, 32, 48,
      48, 48, 48, 48, 45, 48, 32, 45, 49, 49, 54, 48, 54, 45, 52, 32, 48, 32, 32, 50, 57, 50, 55>>
\* "2 25544  51.6416 247.4627 0006703 130.5360 325.0288 15.72125391563537"
ISS_LINE2 ==
    <<50, 32, 50, 53, 53, 52, 52, 32, 32, 53, 49, 46, 54, 52, 49, 54, 32, 50, 52, 55, 46, 52, 54,
      50, 55, 32, 48, 48, 48, 54, 55, 48, 51, 32, 49, 51, 48, 46, 53, 51, 54, 48, 32, 51, 50, 53,
      46, 48, 50, 56, 56, 32, 49, 53, 46, 55, 50, 49, 50, 53, 51, 57, 49, 53, 54, 51, 53, 51, 55>>
\* "1 23455U 94089A   97320.90946019  .00000140  00000-0  10191-3 0  2621"
NOAA14_LINE1 ==
    <<49, 32, 50, 51, 52, 53, 53, 85, 32, 57, 52, 48, 56, 57, 65, 32, 32, 32, 57, 55, 51, 50, 48,
      46, 57, 48, 57, 52, 54, 48, 49, 57, 32, 32, 46, 48, 48, 48, 48, 48, 49, 52, 48, 32, 32, 48,
      48, 48, 48, 48, 45, 48, 32, 32, 49, 48, 49, 57, 49, 45, 51, 32, 48, 32, 32, 50, 54, 50, 49>>
\* "2 23455  99.0090 272.6745 0008546 223.1686 136.8816 14.11711747148495"
NOAA14_LINE2 ==
    <<50, 32, 50, 51, 52, 53, 53, 32, 32, 57, 57, 46, 48, 48, 57, 48, 32, 50, 55, 50, 46, 54, 55,
      52, 53, 32, 48, 48, 48, 56, 53, 52, 54, 32, 50, 50, 51, 46, 49, 54, 56, 54, 32, 49, 51, 54,
      46, 56, 56, 49, 54, 32, 49, 52, 46, 49, 49, 55, 49, 49, 55, 52, 55, 49, 52, 56, 52, 57, 53>>

\* the columns where the parser calls split_space!, by line
SeparatorColumns(l) ==
    IF l = 1 THEN <<1, 8, 17, 32, 43, 52, 61, 63>> ELSE <<1, 7, 16, 25, 33, 42, 51>>

\* an edit: write `ch` to `len` columns from `col` on, cut the line to `len`
\* bytes, or append `ch`
Set(l, c, ch) == [op |-> "set", line |-> l, col |-> c, len |-> 1, ch |-> ch]
Fill(l, c, n, ch) == [op |-> "fill", line |-> l, col |-> c, len |-> n, ch |-> ch]
Cut(l, n) == [op |-> "truncate", line |-> l, col |-> 0, len |-> n, ch |-> 0]
Push(l, ch) == [op |-> "append", line |-> l, col |-> 0, len |-> 1, ch |-> ch]

EditList ==
    \* a letter 'X' in every separator column
    [k \in 1..8 |-> Set(1, SeparatorColumns(1)[k], 88)]
    \o [k \in 1..7 |-> Set(2, SeparatorColumns(2)[k], 88)]
    \* line-number markers: the other line's number, a letter
    \o <<Set(1, 0, 50), Set(1, 0, 88), Set(2, 0, 49), Set(2, 0, 88)>>
    \* catalog numbers: another last digit, a letter, a space
    \o <<Set(1, 6, 48), Set(2, 6, 48), Set(1, 2, 88), Set(2, 2, 88), Set(1, 2, 32)>>
    \* classification 'C', 'S', 'X'; ephemeris type '1'; a sign in front of B*
    \o <<Set(1, 7, 67), Set(1, 7, 83), Set(1, 7, 88), Set(1, 62, 49), Set(1, 53, 45)>>
    \* a letter in every field of line 1 (the launch piece takes any char)
    \o <<Set(1, 9, 88), Set(1, 11, 88), Set(1, 14, 88), Set(1, 18, 88), Set(1, 20, 88),
         Set(1, 40, 88), Set(1, 46, 88), Set(1, 55, 88), Set(1, 66, 88), Set(1, 68, 88)>>
    \* a letter in every field of line 2
    \o <<Set(2, 10, 88), Set(2, 18, 88), Set(2, 28, 88), Set(2, 36, 88), Set(2, 45, 88),
         Set(2, 54, 88), Set(2, 64, 88), Set(2, 68, 88)>>
    \* a byte outside ASCII at the start or inside line 1, at the start or the
    \* end of line 2
    \o <<Set(1, 0, 195), Set(1, 40, 195), Set(2, 0, 195), Set(2, 68, 195)>>
    \* space-padded fields left blank; B* blank after its sign; eccentricity zero
    \o <<Fill(1, 33, 10, 32), Fill(1, 44, 8, 32), Fill(1, 53, 8, 32), Fill(1, 54, 7, 32),
         Fill(1, 64, 4, 32), Fill(2, 8, 8, 32), Fill(2, 17, 8, 32), Fill(2, 26, 7, 48)>>
    \* lines that are too short, empty or too long
    \o <<Cut(1, 68), Cut(1, 0), Cut(2, 68), Push(1, 48), Push(2, 48)>>

\* the line after an edit (columns past its end are left alone)
Edited(line, e) ==
    IF e.op = "truncate" THEN SubSeq(line, 1, e.len)
    ELSE IF e.op = "append" THEN Append(line, e.ch)
    ELSE [k \in 1..Len(line) |->
             IF k - 1 >= e.col /\ k - 1 < e.col + e.len THEN e.ch ELSE line[k]]

NotCalled == [kind |-> "NotCalled", err |-> Error("", "", 0, 0), val |-> <<>>]

\* the pairs of lines the edits start from: each satellite's own pair, and
\* the first line of one with the second line of the other
BasePairs ==
    {<<ISS_LINE1, ISS_LINE2>>, <<NOAA14_LINE1, NOAA14_LINE2>>, <<ISS_LINE1, NOAA14_LINE2>>}

Init ==
    /\ \E p \in BasePairs : line1 = p[1] /\ line2 = p[2]
    /\ nedits = 0
    /\ last = 0
    /\ pc = "input"
    /\ result = NotCalled
    /\ chars = <<>>
    /\ dres = DNone

\* edit i of EditList applies to the lines as they are
Applies(i) ==
    LET e == EditList[i]
        line == IF e.line = 1 THEN line1 ELSE line2
    IN  /\ e.op \in {"set", "fill"} => e.col + e.len <= Len(line)
        /\ e.op = "truncate" => e.len <= Len(line)

\* the caller prepares the arguments: edit i of EditList is applied
ApplyEdit(i) ==
    /\ Applies(i)
    /\ line1' = IF EditList[i].line = 1 THEN Edited(line1, EditList[i]) ELSE line1
    /\ line2' = IF EditList[i].line = 2 THEN Edited(line2, EditList[i]) ELSE line2
    /\ last' = i
    /\ nedits' = nedits + 1
    /\ UNCHANGED <<pc, result, chars, dres>>

SetByte ==
    /\ pc = "input"
    /\ nedits < MaxEdits
    /\ \E i \in (last + 1)..Len(EditList) : EditList[i].op = "set" /\ ApplyEdit(i)

FillField ==
    /\ pc = "input"
    /\ nedits < MaxEdits
    /\ \E i \in (last + 1)..Len(EditList) : EditList[i].op = "fill" /\ ApplyEdit(i)

Truncate ==
    /\ pc = "input"
    /\ nedits < MaxEdits
    /\ \E i \in (last + 1)..Len(EditList) : EditList[i].op = "truncate" /\ ApplyEdit(i)

AppendByte ==
    /\ pc = "input"
    /\ nedits < MaxEdits
    /\ \E i \in (last + 1)..Len(EditList) : EditList[i].op = "append" /\ ApplyEdit(i)

\* Tle::parse(line1, line2), in a build with or without overflow checks
CallParse ==
    /\ pc = "input"
    /\ \E checks \in BOOLEAN : result' = parse(line1, line2, checks)
    /\ pc' = "done"
    /\ UNCHANGED <<line1, line2, nedits, last, chars, dres>>

Next == SetByte \/ FillField \/ Truncate \/ AppendByte \/ CallParse

Spec == Init /\ [][Next]_vars

(***************************************************************************)
(* as_digits on its own: any slice of up to MaxDigitsLen chars drawn from  *)
(* DigitAlphabet.                                                          *)
(***************************************************************************)
\* '0', '9' and a space
DigitAlphabet == {48, 57, 32}

InitDigits ==
    /\ line1 = <<>>
    /\ line2 = <<>>
    /\ nedits = 0
    /\ last = 0
    /\ pc = "input"
    /\ result = NotCalled
    /\ chars = <<>>
    /\ dres = [kind |-> "NotCalled", val |-> U32Zero]

\* the caller builds the slice
PushChar ==
    /\ pc = "input"
    /\ Len(chars) < MaxDigitsLen
    /\ \E c \in DigitAlphabet : chars' = Append(chars, c)
    /\ UNCHANGED <<line1, line2, nedits, last, pc, result, dres>>

\* as_digits(chars), in a build with or without overflow checks
CallAsDigits ==
    /\ pc = "input"
    /\ \E checks \in BOOLEAN : dres' = as_digits(chars, checks)
    /\ pc' = "done"
    /\ UNCHANGED <<line1, line2, nedits, last, result, chars>>

NextDigits == PushChar \/ CallAsDigits

SpecDigits == InitDigits /\ [][NextDigits]_vars

(***************************************************************************)
(* The record layout the properties below are stated against: what each    *)
(* step of a line requires of its columns and which error reports its      *)
(* failure, as the documentation of the Error enum and the specification   *)
(* give them.  These definitions state the documented behaviour; none is    *)
(* used by the model of the parser above.                                  *)
(***************************************************************************)
Done == pc = "done"

\* column p (0-based) of a line, and the len columns from column c on
Col(line, p) == line[p + 1]
Field(line, c, len) == SubSeq(line, c + 1, c + len)

LineName(l) == IF l = 1 THEN "Line1" ELSE "Line2"

\* a non-empty run of decimal digits
AllDigits(s) == Len(s) > 0 /\ \A k \in 1..Len(s) : IsDigit(s[k])

\* the decimal value of a run of digits, most significant first
RECURSIVE DecimalValue(_)
DecimalValue(s) ==
    IF Len(s) = 0
    THEN 0
    ELSE DecimalValue(SubSeq(s, 1, Len(s) - 1)) * 10 + (s[Len(s)] - CH_0)

\* s without its leading spaces (empty when it holds nothing else)
Strip(s) ==
    LET solid == {k \in 1..Len(s) : s[k] # CH_SPACE}
    IN  IF solid = {}
        THEN <<>>
        ELSE SubSeq(s, CHOOSE k \in solid : \A j \in solid : k <= j, Len(s))

\* digits, one '-', digits, after leading spaces
ExponentForm(s) ==
    LET t == Strip(s)
        minus == {k \in 1..Len(t) : t[k] = CH_MINUS}
    IN  /\ Cardinality(minus) = 1
        /\ LET i == CHOOSE k \in minus : TRUE
           IN  AllDigits(SubSeq(t, 1, i - 1)) /\ AllDigits(SubSeq(t, i + 1, Len(t)))

Step(kind, col, len, err) == [kind |-> kind, col |-> col, len |-> len, err |-> err]

\* the steps of each line in column order
Steps(l) ==
    IF l = 1
    THEN <<Step("marker", 0, 1, "LineNumber"),
           Step("space", 1, 1, "Space"),
           Step("digits", 2, 5, "SatlliteCatalogNumber"),
           Step("class", 7, 1, "Classification"),
           Step("space", 8, 1, "Space"),
           Step("digits", 9, 2, "InternationalDesignatorLaunchYear"),
           Step("digits", 11, 3, "InternationalDesignatorLaunchNumber"),
           Step("any", 14, 3, ""),
           Step("space", 17, 1, "Space"),
           Step("digits", 18, 2, "EpochYear"),
           Step("float", 20, 12, "EpochDay"),
           Step("space", 32, 1, "Space"),
           Step("padded float", 33, 10, "FirstDerivative"),
           Step("space", 43, 1, "Space"),
           Step("exponent", 44, 8, "SecondDerivative"),
           Step("space", 52, 1, "Space"),
           Step("signed exponent", 53, 8, "BStar"),
           Step("space", 61, 1, "Space"),
           Step("ephemeris", 62, 1, "EphemerisType"),
           Step("space", 63, 1, "Space"),
           Step("padded digits", 64, 4, "ElementSetNumber"),
           Step("digits", 68, 1, "Checksum")>>
    ELSE <<Step("marker", 0, 1, "LineNumber"),
           Step("space", 1, 1, "Space"),
           Step("digits", 2, 5, "SatlliteCatalogNumber"),
           Step("match", 2, 5, "SatelliteCatalogNumberMismatch"),
           Step("space", 7, 1, "Space"),
           Step("padded float", 8, 8, "Inclination"),
           Step("space", 16, 1, "Space"),
           Step("float", 17, 8, "RightAscension"),
           Step("space", 25, 1, "Space"),
           Step("nonzero digits", 26, 7, "Eccentricty"),
           Step("space", 33, 1, "Space"),
           Step("float", 34, 8, "ArgumentOfPerigee"),
           Step("space", 42, 1, "Space"),
           Step("float", 43, 8, "MeanAnomaly"),
           Step("space", 51, 1, "Space"),
           Step("float", 52, 11, "MeanMotion"),
           Step("digits", 63, 5, "RevolutionNumber"),
           Step("digits", 68, 1, "Checksum")>>

\* the kinds of step that decode a field
FieldKinds ==
    {"digits", "class", "float", "padded float", "exponent", "signed exponent",
     "ephemeris", "padded digits", "nonzero digits"}

\* step st of line l is well-formed in the lines l1, l2 (both LINE_LEN long)
StepOk(l, st, l1, l2) ==
    LET line == IF l = 1 THEN l1 ELSE l2
        f == Field(line, st.col, st.len)
    IN  CASE st.kind = "marker" -> f[1] = (IF l = 1 THEN CH_1 ELSE CH_2)
          [] st.kind = "space" -> f[1] = CH_SPACE
          [] st.kind = "digits" -> AllDigits(f)
          [] st.kind = "class" -> f[1] \in {CH_U, CH_C, CH_S}
          [] st.kind = "any" -> TRUE
          [] st.kind = "float" -> parse_float(f)
          [] st.kind = "padded float" -> parse_float(Strip(f))
          [] st.kind = "exponent" -> ExponentForm(f)
          [] st.kind = "signed exponent" ->
                 ExponentForm(IF f[1] = CH_MINUS THEN Tail(f) ELSE f)
          [] st.kind = "ephemeris" -> f[1] = CH_0
          [] st.kind = "padded digits" -> AllDigits(Strip(f))
          [] st.kind = "nonzero digits" -> AllDigits(f) /\ DecimalValue(f) # 0
          [] st.kind = "match" ->
                 DecimalValue(Field(l1, st.col, st.len)) = DecimalValue(f)

\* the error that reports the failure of step st of line l
ExpectedError(l, st, l1, l2) ==
    LET line == IF l = 1 THEN l1 ELSE l2
        c == Col(line, st.col)
    IN  CASE st.err \in {"LineNumber", "Checksum"} -> Error(st.err, LineName(l), c, 0)
          [] st.err = "Space" -> Error(st.err, LineName(l), c, st.col)
          [] st.err = "SatlliteCatalogNumber" -> Error(st.err, LineName(l), 0, 0)
          [] st.err \in {"Classification", "EphemerisType"} -> Error(st.err, "", c, 0)
          [] st.err = "SatelliteCatalogNumberMismatch" ->
                 Error(st.err, "", DecimalValue(Field(l1, st.col, st.len)),
                       DecimalValue(Field(l2, st.col, st.len)))
          [] OTHER -> Error(st.err, "", 0, 0)

\* a line of LINE_LEN ASCII bytes
Valid(line) == Len(line) = LINE_LEN /\ \A k \in 1..Len(line) : line[k] <= ASCII_MAX

HasNonAscii(line) == \E k \in 1..Len(line) : line[k] > ASCII_MAX

\* every step of line 1 succeeds
WellFormedLine1(l1) ==
    Valid(l1) /\ \A k \in 1..Len(Steps(1)) : StepOk(1, Steps(1)[k], l1, l1)

\* line l is reached and its steps before step k succeed
EarlierOk(l, k, l1, l2) ==
    /\ IF l = 1 THEN Valid(l1) ELSE WellFormedLine1(l1) /\ Valid(l2)
    /\ \A j \in 1..(k - 1) : StepOk(l, Steps(l)[j], l1, l2)

\* every step of both lines succeeds
WellFormed(l1, l2) ==
    WellFormedLine1(l1) /\ EarlierOk(2, Len(Steps(2)) + 1, l1, l2)

\* step k of line l is the first step that fails
FirstFailure(l, k, l1, l2) ==
    EarlierOk(l, k, l1, l2) /\ ~StepOk(l, Steps(l)[k], l1, l2)

(***************************************************************************)
(* Properties of Tle::parse, checked under Spec.                           *)
(***************************************************************************)

\* C1: Tle::parse never panics: whatever the two byte sequences, the call
\* returns Ok or Err; in particular a space-padded field that holds only
\* spaces yields that field's decode error.
C1_NeverPanics == Done => result.kind \in {"Ok", "Err"}

C3_OkImpliesStructure ==
    (Done /\ result.kind = "Ok") =>
        /\ Valid(line1) /\ Valid(line2)
        /\ Col(line1, 0) = CH_1 /\ Col(line2, 0) = CH_2
        /\ \A k \in 1..Len(SeparatorColumns(1)) :
               Col(line1, SeparatorColumns(1)[k]) = CH_SPACE
        /\ \A k \in 1..Len(SeparatorColumns(2)) :
               Col(line2, SeparatorColumns(2)[k]) = CH_SPACE
        /\ Col(line1, 62) = CH_0
        /\ Col(line1, 7) \in {CH_U, CH_C, CH_S}
        /\ AllDigits(Field(line1, 2, 5)) /\ AllDigits(Field(line2, 2, 5))
        /\ DecimalValue(Field(line1, 2, 5)) = DecimalValue(Field(line2, 2, 5))
        /\ result.val.satellite_catalog_number = DecimalValue(Field(line1, 2, 5))

\* C3's case: a pair with both catalog numbers edited to the same new value
\* has been parsed and accepted.
C3_Witness ==
    /\ Done
    /\ result.kind = "Ok"
    /\ nedits = 2
    /\ result.val.satellite_catalog_number = 25540

\* C4 as stated: whenever both lines are 69 bytes long and the two catalog
\* number fields decode to different values n1 and n2, the result is
\* SatelliteCatalogNumberMismatch(n1, n2).
C4_MismatchWhatever ==
    (/\ Done
     /\ Len(line1) = LINE_LEN /\ Len(line2) = LINE_LEN
     /\ AllDigits(Field(line1, 2, 5)) /\ AllDigits(Field(line2, 2, 5))
     /\ DecimalValue(Field(line1, 2, 5)) # DecimalValue(Field(line2, 2, 5)))
    => result = Err(Error("SatelliteCatalogNumberMismatch", "",
                          DecimalValue(Field(line1, 2, 5)),
                          DecimalValue(Field(line2, 2, 5))))

\* C4 amended: when every step of line 1 succeeds, line 2 is 69 ASCII bytes
\* that start with '2' and a space, and the two catalog number fields decode
\* to different values n1 and n2, the result is
\* SatelliteCatalogNumberMismatch(n1, n2), whatever the later columns of
\* line 2 hold.
C4_MismatchBeforeLaterFields ==
    (/\ Done
     /\ WellFormedLine1(line1)
     /\ Valid(line2)
     /\ Col(line2, 0) = CH_2 /\ Col(line2, 1) = CH_SPACE
     /\ AllDigits(Field(line2, 2, 5))
     /\ DecimalValue(Field(line1, 2, 5)) # DecimalValue(Field(line2, 2, 5)))
    => result = Err(Error("SatelliteCatalogNumberMismatch", "",
                          DecimalValue(Field(line1, 2, 5)),
                          DecimalValue(Field(line2, 2, 5))))

\* C4's case: the catalog numbers differ, a later field of line 2 (the
\* inclination) is malformed as well, and the mismatch has been reported.
C4_Witness ==
    /\ Done
    /\ WellFormedLine1(line1)
    /\ Valid(line2)
    /\ ~StepOk(2, Steps(2)[6], line1, line2)
    /\ result.kind = "Err"
    /\ result.err[1] = "SatelliteCatalogNumberMismatch"
    /\ result.err[3] # result.err[4]

\* the size error of line l
SizeError(l, line) == Err(Error("InvalidLineSize", LineName(l), Len(line), 0))

\* C5 as stated: if either line's length is not 69, the result is
\* InvalidLineSize naming a line whose length is wrong, with that line's
\* length, whatever the other line holds.
C5_SizeWhatever ==
    (Done /\ (Len(line1) # LINE_LEN \/ Len(line2) # LINE_LEN)) =>
        \/ Len(line1) # LINE_LEN /\ result = SizeError(1, line1)
        \/ Len(line2) # LINE_LEN /\ result = SizeError(2, line2)

\* C5 amended: if line 1's length is not 69, the result is
\* InvalidLineSize(Line1, n) whatever line 2 holds; if every step of line 1
\* succeeds and line 2's length is not 69, the result is
\* InvalidLineSize(Line2, n).  The length check is the first check of each
\* line, and line 2 is checked only after line 1 has been parsed.
C5_SizeFirstPerLine ==
    Done =>
        /\ Len(line1) # LINE_LEN => result = SizeError(1, line1)
        /\ (WellFormedLine1(line1) /\ Len(line2) # LINE_LEN) =>
               result = SizeError(2, line2)

\* C5's case: line 1 is well-formed, line 2 is a byte short and does not even
\* start with '2', and the size of line 2 has been reported.
C5_Witness ==
    /\ Done
    /\ WellFormedLine1(line1)
    /\ Len(line2) = LINE_LEN - 1
    /\ line2[1] # CH_2
    /\ result = SizeError(2, line2)

\* the non-ASCII error of line l
AsciiError(l) == Err(Error("ContainsNonAsciiCharacter", LineName(l), 0, 0))

\* C6 as stated: if any byte of either line is outside ASCII, the result is
\* ContainsNonAsciiCharacter naming a line that holds such a byte, and no
\* other error of either line is returned instead.
C6_AsciiWhatever ==
    (Done /\ (HasNonAscii(line1) \/ HasNonAscii(line2))) =>
        \/ HasNonAscii(line1) /\ result = AsciiError(1)
        \/ HasNonAscii(line2) /\ result = AsciiError(2)

\* C6 amended: if line 1 is 69 bytes long and holds a byte outside ASCII, the
\* result is ContainsNonAsciiCharacter(Line1), whatever else the lines hold;
\* if every step of line 1 succeeds and line 2 is 69 bytes long and holds a
\* byte outside ASCII, the result is ContainsNonAsciiCharacter(Line2).  In
\* each line the check follows the length check and precedes the decoding
\* of that line's fields.
C6_AsciiBeforeFieldsPerLine ==
    Done =>
        /\ (Len(line1) = LINE_LEN /\ HasNonAscii(line1)) => result = AsciiError(1)
        /\ (WellFormedLine1(line1) /\ Len(line2) = LINE_LEN /\ HasNonAscii(line2)) =>
               result = AsciiError(2)

\* C6's case: line 1 holds a byte outside ASCII and a letter in a separator
\* column, and the non-ASCII error has been reported.
C6_Witness ==
    /\ Done
    /\ Len(line1) = LINE_LEN
    /\ HasNonAscii(line1)
    /\ \E k \in 1..Len(SeparatorColumns(1)) :
           Col(line1, SeparatorColumns(1)[k]) \notin {CH_SPACE, 195}
    /\ result = AsciiError(1)

\* C7: when a separator column of either line is the first thing wrong and
\* holds the character c, the result is Space(L, c, p) with L the line that
\* holds the column and p the column.
C7_SeparatorError ==
    Done =>
        \A l \in {1, 2} : \A k \in 1..Len(Steps(l)) :
            (Steps(l)[k].kind = "space" /\ FirstFailure(l, k, line1, line2)) =>
                result = Err(ExpectedError(l, Steps(l)[k], line1, line2))

\* C8: when a field is the first thing that cannot be decoded, the result is
\* the error kind of that field.
C8_FieldErrorNamesField ==
    Done =>
        \A l \in {1, 2} : \A k \in 1..Len(Steps(l)) :
            (Steps(l)[k].kind \in FieldKinds /\ FirstFailure(l, k, line1, line2)) =>
                result = Err(ExpectedError(l, Steps(l)[k], line1, line2))

\* C9: when column 0 of a line that is reached holds a character c other
\* than the line's number, the result is LineNumber(L, c).
C9_LineNumberError ==
    Done =>
        \A l \in {1, 2} :
            FirstFailure(l, 1, line1, line2) =>
                result = Err(ExpectedError(l, Steps(l)[1], line1, line2))

(***************************************************************************)
(* Properties of as_digits, checked under SpecDigits.                      *)
(***************************************************************************)

\* C10 as stated: every non-empty slice of digits yields Some(v) with v the
\* place-value sum of the digits; the empty slice and every slice with a
\* char that is no digit yield None.  (The sum is compared where it fits
\* the integers of the model: up to 9 digits.)
C10_AnyLength ==
    Done =>
        IF AllDigits(chars)
        THEN /\ dres.kind = "Some"
             /\ Len(chars) <= 9 => U32ToInt(dres.val) = DecimalValue(chars)
        ELSE dres.kind = "None"

\* C10 amended: for every slice of at most 9 chars: if it is a non-empty run
\* of digits, as_digits returns Some(v) with v the place-value sum of the
\* digits read most significant first; otherwise it returns None.  (From 10
\* chars on the u32 arithmetic can overflow: the call panics in a build with
\* overflow checks and wraps in one without.)
C10_UpToNineDigits ==
    (Done /\ Len(chars) <= 9) =>
        IF AllDigits(chars)
        THEN dres.kind = "Some" /\ U32ToInt(dres.val) = DecimalValue(chars)
        ELSE dres.kind = "None"

\* C10's case: nine digits with a leading zero have been decoded.
C10_Witness ==
    /\ Done
    /\ Len(chars) = 9
    /\ AllDigits(chars)
    /\ chars[1] = CH_0 /\ chars[9] = 57
    /\ dres.kind = "Some"
    /\ U32ToInt(dres.val) = DecimalValue(chars)

====
